---- MODULE Spec2Model ----
(***************************************************************************)
(* ai-paper-filter: the run of ResearchPipeline (src/src/pipeline.py) over *)
(* the PaperArchive (src/src/archive.py), the Curator (src/src/curator.py),*)
(* the result contracts of CognitiveBrain (src/src/brain.py) and of        *)
(* PerceptionTools.fetch_paper_details (src/src/tools.py).                 *)
(*                                                                         *)
(* Python strings are sequences of one-character strings, so that          *)
(* `in`, lower(), split(), endswith() and slicing are computed.            *)
(* Optional values (None or a value) are sequences of length 0 or 1.       *)
(* Floats are fixed-point integers in thousandths (0.3 is 300).            *)
(* Embeddings are integer vectors of norm 10 (unit vectors scaled by 10).  *)
(***************************************************************************)
EXTENDS Integers, Sequences, FiniteSets, TLC

\* ------------------------------------------------------------------ bounds

\* the largest number of candidates fetch_daily_papers returns (max_papers)
MaxPapers == 3

\* ------------------------------------------------------------- state

VARIABLES
    pc,              \* where run is
    disk,            \* the persisted store at db_path
    memory,          \* PaperArchive.memory
    profile,         \* Optional ResearchProfile
    n,               \* len(candidates)
    i,               \* the loop index of run (1-based), 0 before the loop
    p,               \* Optional current candidate
    text,            \* the text fetched for the current candidate
    insight,         \* Optional PaperInsight of the current candidate
    hist_match,      \* Optional archive entry retrieve_similar returned
    critic_res,      \* Optional result of compare_and_evaluate
    relevance,       \* the relevance of the current candidate, in thousandths
    frontend_cards,  \* the list of (priority_score, card_obj)
    result,          \* what run returned
    hist_idx,        \* history: best_idx of the entry in hist_match, 0 for None
    judged,          \* history: how the duplicate judgment of the current candidate ended
    calls,           \* history: the calls made for the current candidate
    origin,          \* history: for each entry of memory the candidate it was saved for, 0 if loaded
    arrivals,        \* history: the accepted candidates in arrival order, with their priority
    outcome          \* history: per candidate, how its iteration ended

\* The locals text and critic_res are reset once nothing reads them any more
\* (text after think, critic_res after the test of line 114), and all locals
\* of the loop body at the start of an iteration.

vars == <<pc, disk, memory, profile, n, i, p, text, insight, hist_match, critic_res,
          relevance, frontend_cards, result, hist_idx, judged, calls, origin,
          arrivals, outcome>>

\* ------------------------------------------------------------- python str

UpperAlpha == <<"A","B","C","D","E","F","G","H","I","J","K","L","M","N","O","P","Q","R","S","T","U","V","W","X","Y","Z">>
LowerAlpha == <<"a","b","c","d","e","f","g","h","i","j","k","l","m","n","o","p","q","r","s","t","u","v","w","x","y","z">>

\* one character of str.lower()
LowerChar(c) ==
    IF \E k \in 1..Len(UpperAlpha) : UpperAlpha[k] = c
    THEN LowerAlpha[CHOOSE k \in 1..Len(UpperAlpha) : UpperAlpha[k] = c]
    ELSE c

\* str.lower()
Lower(s) == [k \in 1..Len(s) |-> LowerChar(s[k])]

\* Python's `needle in hay` on strings (the empty string is in every string)
Contains(needle, hay) ==
    \E k \in 0..(Len(hay) - Len(needle)) :
        SubSeq(hay, k + 1, k + Len(needle)) = needle

\* str.endswith(c) for a one-character suffix
EndsWith(s, c) == Len(s) > 0 /\ s[Len(s)] = c

\* s[:-1]
DropLast(s) == SubSeq(s, 1, Len(s) - 1)

IsSpace(c) == c \in {" ", "\n"}

\* str.split(): the maximal runs of non-whitespace characters, in order
RECURSIVE SplitFrom(_, _, _)
SplitFrom(s, k, word) ==
    IF k > Len(s)
    THEN IF word = << >> THEN << >> ELSE <<word>>
    ELSE IF IsSpace(s[k])
         THEN (IF word = << >> THEN << >> ELSE <<word>>) \o SplitFrom(s, k + 1, << >>)
         ELSE SplitFrom(s, k + 1, Append(word, s[k]))

Split(s) == SplitFrom(s, 1, << >>)

\* ------------------------------------------------------------ embeddings

Dot(a, b) == a[1] * b[1] + a[2] * b[2] + a[3] * b[3] + a[4] * b[4]

\* the integer square root
ISqrt(x) == CHOOSE k \in 0..x : k * k <= x /\ x < (k + 1) * (k + 1)

Norm(a) == ISqrt(Dot(a, a))

\* sklearn cosine_similarity of two vectors, in thousandths
CosineSimilarity(a, b) == (1000 * Dot(a, b)) \div (Norm(a) * Norm(b))

\* the texts the encoder is applied to: summaries (one_liner) and interests
SumAgentsPlan == <<"a","g","e","n","t","s"," ","p","l","a","n"," ","t","a","s","k","s">>
SumSurvey     == <<"a"," ","S","u","r","v","e","y"," ","o","f"," ","a","g","e","n","t","s">>
SumVision     == <<"i","m","a","g","e"," ","s","e","g","m","e","n","t","a","t","i","o","n">>
SumPlanning   == <<"p","l","a","n","n","i","n","g"," ","w","i","t","h"," ","s","e","a","r","c","h">>
SumOldAgents  == <<"t","o","o","l"," ","u","s","e"," ","b","y"," ","a","g","e","n","t","s">>
SumOldGraphs  == <<"g","r","a","p","h"," ","n","e","t","w","o","r","k","s">>

IntLlmAgents     == <<"L","L","M"," ","A","g","e","n","t","s">>
IntRag           == <<"r","a","g">>
IntReinforcement == <<"r","e","i","n","f","o","r","c","e","m","e","n","t"," ","l","e","a","r","n","i","n","g">>
IntRl            == <<"R","L">>
IntAgent         == <<"a","g","e","n","t">>

\* SentenceTransformer.encode of one text: a fixed unit vector per text
Encode(s) ==
    CASE s = SumAgentsPlan -> <<8, 6, 0, 0>>
      [] s = SumSurvey     -> <<8, 0, 6, 0>>
      [] s = SumVision     -> <<2, 8, 4, 4>>
      [] s = SumPlanning   -> <<3, 9, 3, 1>>
      [] s = SumOldAgents  -> <<10, 0, 0, 0>>
      [] s = SumOldGraphs  -> <<0, 0, 10, 0>>
      [] s = IntLlmAgents  -> <<6, 8, 0, 0>>
      [] s = IntRag        -> <<6, -8, 0, 0>>
      [] s = IntReinforcement -> <<0, 10, 0, 0>>
      [] s = IntRl         -> <<0, 8, 6, 0>>
      [] s = IntAgent      -> <<10, 0, 0, 0>>

\* np.mean(vecs, axis=0)
RECURSIVE SumVecs(_)
SumVecs(vecs) ==
    IF Len(vecs) = 1 THEN Head(vecs)
    ELSE LET r == SumVecs(Tail(vecs)) IN [d \in DOMAIN r |-> Head(vecs)[d] + r[d]]

MeanVec(vecs) == LET s == SumVecs(vecs) IN [d \in DOMAIN s |-> s[d] \div Len(vecs)]

\* ------------------------------------------- tools.fetch_paper_details

PageFetchFailedText      == <<"P","a","g","e"," ","f","e","t","c","h"," ","f","a","i","l","e","d",".">>
HeaderNotFoundText       == <<"A","b","s","t","r","a","c","t"," ","h","e","a","d","e","r"," ","n","o","t"," ","f","o","u","n","d"," ","o","n"," ","p","a","g","e",".">>
SourceLineText           == <<"S","o","u","r","c","e",":"," ","H","u","g","g","i","n","g"," ","F","a","c","e"," ","P","a","g","e","\n">>
AiSummaryLabel           == <<"A","I"," ","S","u","m","m","a","r","y",":"," ">>
BlankLine                == <<"\n","\n">>
FullAbstractLabel        == <<"F","u","l","l"," ","A","b","s","t","r","a","c","t",":"," ">>
AbstractNotParsedText    == <<"A","b","s","t","r","a","c","t"," ","t","e","x","t"," ","c","o","u","l","d"," ","n","o","t"," ","b","e"," ","p","a","r","s","e","d",".">>

\* what the request for a paper page can give: an exception, or a page with
\* or without the "Abstract</h2>" header, an AI summary and an abstract
Pages ==
    { [exception |-> TRUE,  header |-> FALSE, ai_summary |-> << >>, real_abstract |-> << >>],
      [exception |-> FALSE, header |-> FALSE, ai_summary |-> << >>, real_abstract |-> << >>],
      [exception |-> FALSE, header |-> TRUE,  ai_summary |-> << >>, real_abstract |-> << >>],
      [exception |-> FALSE, header |-> TRUE,  ai_summary |-> <<"p","l","a","n","s">>,
                                              real_abstract |-> <<"W","e"," ","s","t","u","d","y"," ","a","g","e","n","t","s",".">>] }

\* PerceptionTools.fetch_paper_details: the string it returns for a page
FetchPaperDetails(page) ==
    IF page.exception THEN PageFetchFailedText
    ELSE IF page.header
         THEN SourceLineText
              \o (IF page.ai_summary # << >>
                  THEN AiSummaryLabel \o page.ai_summary \o BlankLine ELSE << >>)
              \o (IF page.real_abstract # << >>
                  THEN FullAbstractLabel \o page.real_abstract
                  ELSE AbstractNotParsedText)
         ELSE HeaderNotFoundText

\* the two return paths of fetch_paper_details on which no page text was retrieved
IsFailureResult(page) == page.exception \/ ~page.header

\* the markers run looks for in the text
AbstractNotFoundMarker == <<"A","b","s","t","r","a","c","t"," ","n","o","t"," ","f","o","u","n","d">>
PageFetchFailedMarker  == <<"P","a","g","e"," ","f","e","t","c","h"," ","f","a","i","l","e","d">>

\* pipeline.py line 96: the text is taken as a fetch failure
IsFetchFailureText(t) ==
    Contains(AbstractNotFoundMarker, t) \/ Contains(PageFetchFailedMarker, t)

\* ------------------------------------------------------------- brain

\* _generate_json: a failed status (no JSON, or the schema rejects it)
Failed == [status |-> "failed"]

Success(d) == [status |-> "success", data |-> d]

TitleLlmAgents   == <<"L","L","M"," ","A","g","e","n","t","s">>
TitleAgentSurvey == <<"A","g","e","n","t"," ","S","u","r","v","e","y">>
TitleVision      == <<"V","i","s","i","o","n">>
TitlePlanning    == <<"P","l","a","n","n","i","n","g">>

PaperInsight(t, s, nov, res, comp, total) ==
    [title |-> t, one_liner |-> s, score_novelty |-> nov, score_results |-> res,
     score_completeness |-> comp, score |-> total]

\* the PaperInsight values think returns here; the schema checks the types of
\* the fields only, so score need not be the sum of the sub-scores: the last
\* two have a score below and above their sum
Insights ==
    { PaperInsight(TitleLlmAgents,   SumAgentsPlan, 4, 3, 3, 10),
      PaperInsight(TitleAgentSurvey, SumSurvey,     2, 2, 2, 6),
      PaperInsight(TitleVision,      SumVision,     2, 2, 1, 5),
      PaperInsight(TitleLlmAgents,   SumAgentsPlan, 4, 3, 3, 4),
      PaperInsight(TitlePlanning,    SumPlanning,   2, 2, 1, 6) }

ThinkResults == {Failed} \cup {Success(d) : d \in Insights}

InnovationTypes == {"None", "Incremental", "Breakthrough", "Different_Field"}

\* ComparativeAnalysis: topic_overlap_score has ge=0, le=10; the ends of the
\* range and the values around the duplicate threshold
TopicOverlapScores == {0, 7, 8, 9, 10}

ComparativeAnalyses ==
    [topic_overlap_score : TopicOverlapScores, innovation_type : InnovationTypes]

\* CognitiveBrain.compare_and_evaluate on the result of _generate_json
IsDuplicateStrict(data) ==
    data.topic_overlap_score > 8 /\ data.innovation_type \in {"None", "Incremental"}

IsDuplicate(data) ==
    data.topic_overlap_score >= 8 /\ data.innovation_type \in {"None", "Incremental"}

CompareAndEvaluate(res) ==
    IF res.status = "success"
    THEN Success([topic_overlap_score |-> res.data.topic_overlap_score,
                  innovation_type |-> res.data.innovation_type,
                  is_significant |-> ~IsDuplicate(res.data)])
    ELSE res

CompareResults == {Failed} \cup {Success(d) : d \in ComparativeAnalyses}

\* IntentSchema as analyze_user_intent returns it
NegSurvey == <<"S","U","R","V","E","Y">>

IntentData ==
    [core_interests : {<< >>, <<IntLlmAgents, IntRag>>},
     negative_keywords : {<< >>, <<NegSurvey>>}]

IntentResults == {Failed} \cup {Success(d) : d \in IntentData}

\* ------------------------------------------------------------- archive

SimilarityThreshold == 300

ArchiveEntry(data) ==
    [title |-> data.title, summary |-> data.one_liner, date |-> "2024-01-01",
     embedding |-> Encode(data.one_liner)]

\* the last index of the largest score
ArgMaxLast(scores) ==
    CHOOSE b \in 1..Len(scores) :
        /\ \A k \in 1..Len(scores) : scores[k] <= scores[b]
        /\ \A k \in (b + 1)..Len(scores) : scores[k] < scores[b]

\* np.argmax: the first index of the largest score
ArgMax(scores) ==
    CHOOSE b \in 1..Len(scores) :
        /\ \A k \in 1..Len(scores) : scores[k] <= scores[b]
        /\ \A k \in 1..(b - 1) : scores[k] < scores[b]

\* retrieve_similar over the entries loaded at construction only
RetrieveSimilarIdxLoadedOnly(mem, current_summary) ==
    LET loaded == {k \in 1..Len(mem) : k <= Len(origin) /\ origin[k] = 0} IN
    IF loaded = {} THEN 0
    ELSE LET query_vec == Encode(current_summary)
             scores == [k \in 1..Cardinality(loaded) |->
                           CosineSimilarity(query_vec, mem[k].embedding)]
             best_idx == ArgMax(scores)
         IN IF scores[best_idx] < SimilarityThreshold THEN 0 ELSE best_idx

\* PaperArchive.retrieve_similar: the index in memory of the entry returned, 0 for None
RetrieveSimilarIdx(mem, current_summary) ==
    IF mem = << >> THEN 0
    ELSE LET query_vec == Encode(current_summary)
             scores == [k \in 1..Len(mem) |-> CosineSimilarity(query_vec, mem[k].embedding)]
             best_idx == ArgMax(scores)
         IN IF scores[best_idx] < SimilarityThreshold THEN 0 ELSE best_idx

\* the persisted store: no file, a file that json.load rejects, or a document
Missing == [kind |-> "missing", doc |-> << >>]
Corrupt == [kind |-> "corrupt", doc |-> << >>]
Document(entries) == [kind |-> "document", doc |-> entries]

\* a store that holds the JSON object {}: json.load accepts it
ObjectStore == [kind |-> "object", doc |-> << >>]

\* PaperArchive._load_db: the entries of what it returns ([] for no file and
\* for a file json.load rejects, the document itself, the dict {} with no entries)
LoadDb(store) == IF store.kind = "document" THEN store.doc ELSE << >>

\* self.memory is a list: _load_db returned the dict of an ObjectStore only,
\* and the store stays as it is until a save has written it
MemoryIsList(store) == store.kind # "object"

OldEntry ==
    ArchiveEntry([title |-> <<"T","o","o","l"," ","A","g","e","n","t","s">>, one_liner |-> SumOldAgents])

\* the stores a pipeline is constructed over
InitialStores == {Missing, Document(<<OldEntry>>)}

\* what the file operations of save can do: succeed, stop before the file is
\* opened (makedirs, open raise), or stop after open(path, 'w') truncated it
\* (json.dump or the write raises, or the process dies there)
SaveOutcomes == {"ok", "oserror", "partial"}

\* ------------------------------------------------------------- curator

\* the similarity computation of calculate_relevance raises for an empty list
\* of interests (the mean of no vectors)
RelevanceRaises(prof) == prof.interests = << >>

Similarity(paper_summary, prof) ==
    CosineSimilarity(Encode(paper_summary),
                     MeanVec([k \in 1..Len(prof.interests) |-> Encode(prof.interests[k])]))

HasNegativeKeyword(paper_summary, prof) ==
    \E k \in 1..Len(prof.negative_keywords) :
        Contains(Lower(prof.negative_keywords[k]), Lower(paper_summary))

\* Curator.calculate_relevance, when it returns
CalculateRelevance(paper_summary, prof) ==
    IF HasNegativeKeyword(paper_summary, prof) THEN 0
    ELSE Similarity(paper_summary, prof)

\* ------------------------------------------------------------- pipeline

QualityThreshold == 5

RelevanceThreshold == 200

TopicBoost == 5000

TopN == 3

\* run, lines 136-141: the lower-cased words of the interests longer than 2
Keywords(prof) ==
    UNION { { w \in { Split(Lower(prof.interests[k]))[m] :
                        m \in 1..Len(Split(Lower(prof.interests[k]))) } : Len(w) > 2 }
            : k \in 1..Len(prof.interests) }

\* run, line 144
KeywordMatches(kw, title_lower) ==
    \/ Contains(kw, title_lower)
    \/ (EndsWith(kw, "s") /\ Contains(DropLast(kw), title_lower))
    \/ Contains(kw \o <<"s">>, title_lower)

\* the orders in which `for kw in keywords` can visit the set
KeywordOrders(prof) ==
    LET kws == Keywords(prof) IN
    {o \in [1..Cardinality(kws) -> kws] :
        \A a, b \in 1..Cardinality(kws) : a # b => o[a] # o[b]}

\* the loop without its break: one boost for every keyword that matches
RECURSIVE TopicBoostsNoBreak(_, _)
TopicBoostsNoBreak(order, title_lower) ==
    IF order = << >> THEN 0
    ELSE (IF KeywordMatches(Head(order), title_lower) THEN 1 ELSE 0)
         + TopicBoostsNoBreak(Tail(order), title_lower)

\* run, lines 143-147: how often the body of the if runs when the keywords
\* are visited in this order; the loop breaks at the first keyword that matches
RECURSIVE TopicBoosts(_, _)
TopicBoosts(order, title_lower) ==
    IF order = << >> THEN 0
    ELSE IF KeywordMatches(Head(order), title_lower) THEN 1
         ELSE TopicBoosts(Tail(order), title_lower)

\* boosts times the element "Topic Match"
TopicMatchBadges(boosts) == [k \in 1..boosts |-> "Topic Match"]

\* run, lines 127-131 and 146
Badges(ins, boosts) ==
    (IF ins.score_results = 3 THEN <<"SOTA Beat">> ELSE << >>)
    \o (IF ins.score_novelty = 4 THEN <<"New Arch">> ELSE << >>)
    \o TopicMatchBadges(boosts)

\* run, lines 133 and 145, in thousandths
PriorityScore(ins, rel, boosts) ==
    ins.score * 1000 + rel * 20 + boosts * TopicBoost

\* int((sub / max) * 100)
Pct(sub, max) == (sub * 100) \div max

\* run, lines 149-163 (personalized_reason and read_link, which nothing reads, are left out)
FrontendCard(pid, ins, boosts) ==
    [id |-> pid, rank |-> 0, title |-> ins.title, badges |-> Badges(ins, boosts),
     tldr |-> ins.one_liner,
     metrics_novelty_pct |-> Pct(ins.score_novelty, 4),
     metrics_results_pct |-> Pct(ins.score_results, 3),
     metrics_completeness_pct |-> Pct(ins.score_completeness, 3),
     raw_novelty |-> ins.score_novelty, raw_results |-> ins.score_results,
     raw_completeness |-> ins.score_completeness]

\* list.sort(key=priority, reverse=True): a stable sort, equal priorities keep
\* their order; here by insertion of each element after those not smaller
InsertByPriorityUnstable(sorted, x) ==
    LET pos == Cardinality({k \in 1..Len(sorted) : sorted[k].priority > x.priority})
    IN SubSeq(sorted, 1, pos) \o <<x>> \o SubSeq(sorted, pos + 1, Len(sorted))

InsertByPriority(sorted, x) ==
    LET pos == Cardinality({k \in 1..Len(sorted) : sorted[k].priority >= x.priority})
    IN SubSeq(sorted, 1, pos) \o <<x>> \o SubSeq(sorted, pos + 1, Len(sorted))

RECURSIVE SortByPriority(_)
SortByPriority(cards) ==
    IF cards = << >> THEN << >>
    ELSE InsertByPriority(SortByPriority(SubSeq(cards, 1, Len(cards) - 1)),
                          cards[Len(cards)])

Min(a, b) == IF a <= b THEN a ELSE b

\* "Top Pick" put at the front of the badges of every card returned
FinalCardsTopPickAll(sorted) ==
    [k \in 1..Min(TopN, Len(sorted)) |->
        [sorted[k].card EXCEPT !.rank = k, !.badges = <<"Top Pick">> \o @]]

\* run, lines 176-187: rank and "Top Pick" for frontend_cards[:3]
FinalCards(sorted) ==
    [k \in 1..Min(TopN, Len(sorted)) |->
        [sorted[k].card EXCEPT !.rank = k,
                               !.badges = IF k = 1 THEN <<"Top Pick">> \o @ ELSE @]]

\* ------------------------------------------------------------- run

NoResult == [kind |-> "none", cards |-> << >>]

Exception == [kind |-> "exception", cards |-> << >>]

\* ResearchPipeline.__init__: the archive loads the store
Init ==
    /\ disk \in InitialStores
    /\ memory = LoadDb(disk)
    /\ origin = [k \in 1..Len(memory) |-> 0]
    /\ pc = "intent"
    /\ profile = << >>
    /\ n = 0
    /\ i = 0
    /\ p = << >>
    /\ text = << >>
    /\ insight = << >>
    /\ hist_match = << >>
    /\ critic_res = << >>
    /\ relevance = 0
    /\ frontend_cards = << >>
    /\ arrivals = << >>
    /\ result = NoResult
    /\ hist_idx = 0
    /\ judged = "none"
    /\ calls = {}
    /\ outcome = [j \in 1..MaxPapers |-> "pending"]

Ends(how) == outcome' = [outcome EXCEPT ![i] = how]

\* run going on with an empty profile when the intent call fails
AnalyzeUserIntentContinue ==
    /\ pc = "intent"
    /\ \E intent_res \in IntentResults :
          /\ profile' = IF intent_res.status # "success" THEN << >>
                        ELSE <<[interests |-> intent_res.data.core_interests,
                                negative_keywords |-> intent_res.data.negative_keywords]>>
          /\ pc' = "fetch_daily_papers"
          /\ UNCHANGED result
    /\ UNCHANGED <<disk, memory, n, i, p, text, insight, hist_match, critic_res,
                   relevance, frontend_cards, hist_idx, judged, calls, origin,
                   arrivals, outcome>>

\* run, lines 65-76
AnalyzeUserIntent ==
    /\ pc = "intent"
    /\ \E intent_res \in IntentResults :
          IF intent_res.status # "success"
          THEN /\ result' = [kind |-> "error", cards |-> << >>]
               /\ pc' = "returned"
               /\ UNCHANGED profile
          ELSE /\ profile' = <<[interests |-> intent_res.data.core_interests,
                                negative_keywords |-> intent_res.data.negative_keywords]>>
               /\ pc' = "fetch_daily_papers"
               /\ UNCHANGED result
    /\ UNCHANGED <<disk, memory, n, i, p, text, insight, hist_match, critic_res,
                   relevance, frontend_cards, hist_idx, judged, calls, origin,
                   arrivals, outcome>>

\* run, lines 81-83: fetch_daily_papers returns at most max_papers candidates,
\* each with an arxiv_id (tools.py drops the items without one)
FetchDailyPapers ==
    /\ pc = "fetch_daily_papers"
    /\ n' \in 0..MaxPapers
    /\ frontend_cards' = << >>
    /\ pc' = "loop"
    /\ UNCHANGED <<disk, memory, profile, i, p, text, insight, hist_match, critic_res,
                   relevance, result, hist_idx, judged, calls, origin, arrivals, outcome>>

\* the title of a feed item: item.get('title'), None when the item has none
Titles == {<< >>, <<"title">>}

\* run, lines 88-93: the next candidate of the list; p['title'][:50] raises
\* when the title is None
NextCandidate ==
    /\ pc = "loop"
    /\ i < n
    /\ i' = i + 1
    /\ \E title \in Titles :
          /\ p' = <<[arxiv_id |-> i + 1, title |-> title]>>
          /\ IF title = << >>
             THEN /\ pc' = "raised"
                  /\ result' = Exception
                  /\ outcome' = [outcome EXCEPT ![i + 1] = "raised"]
             ELSE /\ pc' = "fetch_paper_details"
                  /\ UNCHANGED <<result, outcome>>
    /\ text' = << >>
    /\ insight' = << >>
    /\ hist_match' = << >>
    /\ critic_res' = << >>
    /\ relevance' = 0
    /\ hist_idx' = 0
    /\ judged' = "none"
    /\ calls' = {}
    /\ UNCHANGED <<disk, memory, profile, n, frontend_cards, origin, arrivals>>

\* run, lines 95-98
FetchText ==
    /\ pc = "fetch_paper_details"
    /\ \E page \in Pages : text' = FetchPaperDetails(page)
    /\ calls' = calls \cup {"fetch_paper_details"}
    /\ IF IsFetchFailureText(text')
       THEN pc' = "loop" /\ Ends("fetch_failed")
       ELSE pc' = "think" /\ UNCHANGED outcome
    /\ UNCHANGED <<disk, memory, profile, n, i, p, insight, hist_match, critic_res,
                   relevance, frontend_cards, result, hist_idx, judged, origin, arrivals>>

LowQualityOffByOne(ins) == ins.score < QualityThreshold - 1

\* run, line 107
LowQuality(ins) == ins.score < QualityThreshold

\* run archiving every insight think returns, before the quality gate
ThinkArchivesFirst ==
    /\ pc = "think"
    /\ calls' = calls \cup {"think"}
    /\ text' = << >>
    /\ \E insight_res \in ThinkResults :
          IF insight_res.status # "success"
          THEN /\ pc' = "loop"
               /\ Ends("analysis_failed")
               /\ UNCHANGED <<insight, memory, origin, disk>>
          ELSE /\ insight' = <<insight_res.data>>
               /\ memory' = Append(memory, ArchiveEntry(insight_res.data))
               /\ origin' = Append(origin, i)
               /\ disk' = Document(memory')
               /\ IF LowQuality(insight_res.data)
                  THEN pc' = "loop" /\ Ends("low_quality")
                  ELSE pc' = "retrieve_similar" /\ UNCHANGED outcome
    /\ UNCHANGED <<profile, n, i, p, hist_match, critic_res,
                   relevance, frontend_cards, result, hist_idx, judged, arrivals>>

\* run, lines 100-109
Think ==
    /\ pc = "think"
    /\ calls' = calls \cup {"think"}
    /\ text' = << >>
    /\ \E insight_res \in ThinkResults :
          IF insight_res.status # "success"
          THEN /\ pc' = "loop"
               /\ Ends("analysis_failed")
               /\ UNCHANGED insight
          ELSE /\ insight' = <<insight_res.data>>
               /\ IF LowQuality(insight_res.data)
                  THEN pc' = "loop" /\ Ends("low_quality")
                  ELSE pc' = "retrieve_similar" /\ UNCHANGED outcome
    /\ UNCHANGED <<disk, memory, profile, n, i, p, hist_match, critic_res,
                   relevance, frontend_cards, result, hist_idx, judged, origin, arrivals>>

\* run asking for the duplicate judgment whether or not the lookup returned an entry
RetrieveSimilarAlwaysJudge ==
    /\ pc = "retrieve_similar"
    /\ calls' = calls \cup {"retrieve_similar"}
    /\ hist_idx' = RetrieveSimilarIdx(memory, insight[1].one_liner)
    /\ hist_match' = IF hist_idx' = 0 THEN << >> ELSE <<memory[hist_idx']>>
    /\ pc' = "compare_and_evaluate"
    /\ UNCHANGED <<disk, memory, profile, n, i, p, text, insight, critic_res,
                   relevance, frontend_cards, result, judged, origin, arrivals, outcome>>

\* run, lines 111-112
RetrieveSimilar ==
    /\ pc = "retrieve_similar"
    /\ calls' = calls \cup {"retrieve_similar"}
    /\ hist_idx' = RetrieveSimilarIdx(memory, insight[1].one_liner)
    /\ hist_match' = IF hist_idx' = 0 THEN << >> ELSE <<memory[hist_idx']>>
    /\ pc' = IF hist_match' # << >> THEN "compare_and_evaluate" ELSE "save"
    /\ UNCHANGED <<disk, memory, profile, n, i, p, text, insight, critic_res,
                   relevance, frontend_cards, result, judged, origin, arrivals, outcome>>

\* run, line 113
DuplicateJudgment ==
    /\ pc = "compare_and_evaluate"
    /\ calls' = calls \cup {"compare_and_evaluate"}
    /\ \E res \in CompareResults : critic_res' = <<CompareAndEvaluate(res)>>
    /\ pc' = "duplicate_gate"
    /\ UNCHANGED <<disk, memory, profile, n, i, p, text, insight, hist_match,
                   relevance, frontend_cards, result, hist_idx, judged, origin,
                   arrivals, outcome>>

\* the duplicate test skipping the candidate when the judgment call failed
DuplicateGateSkipOnFailure ==
    /\ pc = "duplicate_gate"
    /\ IF critic_res[1].status # "success" \/ ~critic_res[1].data.is_significant
       THEN /\ pc' = "loop"
            /\ judged' = IF critic_res[1].status # "success" THEN "failed" ELSE "duplicate"
            /\ Ends("duplicate")
       ELSE /\ pc' = "save"
            /\ judged' = "significant"
            /\ UNCHANGED outcome
    /\ critic_res' = << >>
    /\ UNCHANGED <<disk, memory, profile, n, i, p, text, insight, hist_match,
                   relevance, frontend_cards, result, hist_idx, calls, origin, arrivals>>

\* run, lines 114-118
DuplicateGate ==
    /\ pc = "duplicate_gate"
    /\ IF critic_res[1].status = "success" /\ ~critic_res[1].data.is_significant
       THEN /\ pc' = "loop"
            /\ judged' = "duplicate"
            /\ Ends("duplicate")
       ELSE /\ pc' = "save"
            /\ judged' = IF critic_res[1].status # "success" THEN "failed" ELSE "significant"
            /\ UNCHANGED outcome
    /\ critic_res' = << >>
    /\ UNCHANGED <<disk, memory, profile, n, i, p, text, insight, hist_match,
                   relevance, frontend_cards, result, hist_idx, calls, origin, arrivals>>

\* save putting the new entry in front of the entries the archive holds
ArchiveSaveFront ==
    /\ pc = "save"
    /\ calls' = calls \cup {"save"}
    /\ memory' = <<ArchiveEntry(insight[1])>> \o memory
    /\ origin' = <<i>> \o origin
    /\ disk' = Document(memory')
    /\ pc' = "calculate_relevance"
    /\ UNCHANGED <<result, outcome>>
    /\ UNCHANGED <<profile, n, i, p, text, insight, hist_match, critic_res,
                   relevance, frontend_cards, hist_idx, judged, arrivals>>

\* save leaving out an entry whose summary the archive already holds
ArchiveSaveDedup ==
    /\ pc = "save"
    /\ calls' = calls \cup {"save"}
    /\ IF \E k \in 1..Len(memory) : memory[k].summary = insight[1].one_liner
       THEN UNCHANGED <<memory, origin>>
       ELSE /\ memory' = Append(memory, ArchiveEntry(insight[1]))
            /\ origin' = Append(origin, i)
    /\ disk' = Document(memory')
    /\ pc' = "calculate_relevance"
    /\ UNCHANGED <<result, outcome>>
    /\ UNCHANGED <<profile, n, i, p, text, insight, hist_match, critic_res,
                   relevance, frontend_cards, hist_idx, judged, arrivals>>

\* run, line 120, PaperArchive.save: the entry is appended to memory, then the
\* whole of memory is written to the store; {}.append raises AttributeError
ArchiveSave ==
    /\ pc = "save"
    /\ calls' = calls \cup {"save"}
    /\ IF ~MemoryIsList(disk)
       THEN /\ pc' = "raised"
            /\ result' = Exception
            /\ Ends("raised")
            /\ UNCHANGED <<memory, origin, disk>>
       ELSE /\ memory' = Append(memory, ArchiveEntry(insight[1]))
            /\ origin' = Append(origin, i)
            /\ \E io \in SaveOutcomes :
                  /\ disk' = CASE io = "ok"      -> Document(memory')
                               [] io = "oserror" -> disk
                               [] io = "partial" -> Corrupt
                  /\ IF io = "ok"
                     THEN pc' = "calculate_relevance" /\ UNCHANGED <<result, outcome>>
                     ELSE pc' = "raised" /\ result' = Exception /\ Ends("raised")
    /\ UNCHANGED <<profile, n, i, p, text, insight, hist_match, critic_res,
                   relevance, frontend_cards, hist_idx, judged, arrivals>>

\* run, lines 122-124 and 167-168
RelevanceGate ==
    /\ pc = "calculate_relevance"
    /\ calls' = calls \cup {"calculate_relevance"}
    /\ IF RelevanceRaises(profile[1])
       THEN /\ pc' = "raised"
            /\ result' = Exception
            /\ Ends("raised")
            /\ UNCHANGED relevance
       ELSE /\ relevance' = CalculateRelevance(insight[1].one_liner, profile[1])
            /\ UNCHANGED result
            /\ IF relevance' > RelevanceThreshold
               THEN pc' = "accept" /\ UNCHANGED outcome
               ELSE pc' = "loop" /\ Ends("low_relevance")
    /\ UNCHANGED <<disk, memory, profile, n, i, p, text, insight, hist_match,
                   critic_res, frontend_cards, hist_idx, judged, origin, arrivals>>

\* run, lines 125-166
Accept ==
    /\ pc = "accept"
    /\ calls' = calls \cup {"generate_why_it_matters"}
    /\ \E order \in KeywordOrders(profile[1]) :
          LET boosts == TopicBoosts(order, Lower(insight[1].title))
              priority_score == PriorityScore(insight[1], relevance, boosts)
              card_obj == FrontendCard(p[1].arxiv_id, insight[1], boosts)
          IN /\ frontend_cards' = Append(frontend_cards,
                                         [priority |-> priority_score, card |-> card_obj])
             /\ arrivals' = Append(arrivals,
                                   [id |-> p[1].arxiv_id, priority |-> priority_score])
    /\ Ends("accepted")
    /\ pc' = "loop"
    /\ UNCHANGED <<disk, memory, profile, n, i, p, text, insight, hist_match,
                   critic_res, relevance, result, hist_idx, judged, origin>>

\* run, lines 174-195
FinalRanking ==
    /\ pc = "loop"
    /\ i = n
    /\ frontend_cards' = SortByPriority(frontend_cards)
    /\ result' = [kind |-> "briefing", cards |-> FinalCards(frontend_cards')]
    /\ pc' = "returned"
    /\ UNCHANGED <<disk, memory, profile, n, i, p, text, insight, hist_match,
                   critic_res, relevance, hist_idx, judged, calls, origin,
                   arrivals, outcome>>

Next ==
    \/ AnalyzeUserIntent
    \/ FetchDailyPapers
    \/ NextCandidate
    \/ FetchText
    \/ Think
    \/ RetrieveSimilar
    \/ DuplicateJudgment
    \/ DuplicateGate
    \/ ArchiveSave
    \/ RelevanceGate
    \/ Accept
    \/ FinalRanking

Spec == Init /\ [][Next]_vars


\* ------------------------------------------------------- ranking alone

\* the largest number of accepted candidates the ranking is applied to
MaxAccepted == 4

RankProfile == [interests |-> <<IntLlmAgents, IntRag>>, negative_keywords |-> << >>]

\* the insights run accepts under RankProfile
AcceptedInsights ==
    {d \in Insights : ~LowQuality(d)
                      /\ CalculateRelevance(d.one_liner, RankProfile) > RelevanceThreshold}

\* The end of the loop of run after m candidates, all of them accepted
\* (no archive match, or a judgment that let them pass).
InitRank ==
    \E m \in 0..MaxAccepted : \E ins \in [1..m -> AcceptedInsights] :
    \E order \in KeywordOrders(RankProfile) :
        LET boosts(k) == TopicBoosts(order, Lower(ins[k].title))
            prio(k) == PriorityScore(ins[k],
                                     CalculateRelevance(ins[k].one_liner, RankProfile),
                                     boosts(k))
        IN
        /\ profile = <<RankProfile>>
        /\ n = m
        /\ i = m
        /\ pc = "loop"
        /\ memory = [k \in 1..m |-> ArchiveEntry(ins[k])]
        /\ origin = [k \in 1..m |-> k]
        /\ disk = IF m = 0 THEN Missing ELSE Document(memory)
        /\ frontend_cards = [k \in 1..m |->
                                [priority |-> prio(k),
                                 card |-> FrontendCard(k, ins[k], boosts(k))]]
        /\ arrivals = [k \in 1..m |-> [id |-> k, priority |-> prio(k)]]
        /\ outcome = [j \in 1..m |-> "accepted"]
        /\ p = IF m = 0 THEN << >> ELSE <<[arxiv_id |-> m, title |-> <<"title">>]>>
        /\ insight = IF m = 0 THEN << >> ELSE <<ins[m]>>
        /\ relevance = IF m = 0 THEN 0
                       ELSE CalculateRelevance(ins[m].one_liner, RankProfile)
        /\ calls = IF m = 0 THEN {}
                   ELSE {"fetch_paper_details", "think", "retrieve_similar", "save",
                         "calculate_relevance", "generate_why_it_matters"}
        /\ text = << >>
        /\ hist_match = << >>
        /\ critic_res = << >>
        /\ hist_idx = 0
        /\ judged = "none"
        /\ result = NoResult

NextRank == FinalRanking

SpecRank == InitRank /\ [][NextRank]_vars

\* ----------------------------------------------------- one card alone

TitleRlRobotics == <<"R","e","i","n","f","o","r","c","e","m","e","n","t"," ","L","e","a","r","n","i","n","g"," ","f","o","r"," ","R","o","b","o","t","i","c","s">>
TitleRlShort    == <<"R","L"," ","f","o","r"," ","R","o","b","o","t","s">>

CardTitles == {TitleLlmAgents, TitleAgentSurvey, TitleVision, TitleRlRobotics, TitleRlShort}

\* the insights with every sub-score of the ranges the schema describes,
\* a score that is their sum, and a score that passes the quality gate
CardInsights ==
    {d \in {PaperInsight(t, SumAgentsPlan, nov, res, comp, nov + res + comp) :
               t \in CardTitles, nov \in 0..4, res \in 0..3, comp \in 0..3} :
        ~LowQuality(d)}

CardProfiles ==
    {[interests |-> ints, negative_keywords |-> << >>] :
        ints \in {<<IntLlmAgents, IntRag>>, <<IntReinforcement>>, <<IntRl>>, <<IntAgent>>}}

\* run at line 125 for the only candidate of the list: saved, and with a
\* relevance above the threshold
InitCard ==
    \E d \in CardInsights : \E prof \in CardProfiles :
        /\ CalculateRelevance(d.one_liner, prof) > RelevanceThreshold
        /\ profile = <<prof>>
        /\ n = 1
        /\ i = 1
        /\ pc = "accept"
        /\ p = <<[arxiv_id |-> 1, title |-> <<"title">>]>>
        /\ insight = <<d>>
        /\ relevance = CalculateRelevance(d.one_liner, prof)
        /\ memory = <<ArchiveEntry(d)>>
        /\ origin = <<1>>
        /\ disk = Document(memory)
        /\ calls = {"fetch_paper_details", "think", "retrieve_similar", "save",
                    "calculate_relevance"}
        /\ outcome = [j \in 1..1 |-> "pending"]
        /\ frontend_cards = << >>
        /\ arrivals = << >>
        /\ text = << >>
        /\ hist_match = << >>
        /\ critic_res = << >>
        /\ hist_idx = 0
        /\ judged = "none"
        /\ result = NoResult

NextCard == Accept \/ FinalRanking

SpecCard == InitCard /\ [][NextCard]_vars

\* ------------------------------------------------- the archive alone

\* the largest number of entries of a store the archive is constructed over
MaxEntries == 3

GraphEntry ==
    ArchiveEntry([title |-> <<"G","r","a","p","h"," ","N","e","t","s">>, one_liner |-> SumOldGraphs])

AgentsPlanEntry ==
    ArchiveEntry([title |-> TitleLlmAgents, one_liner |-> SumAgentsPlan])

StoredEntries == {OldEntry, GraphEntry, AgentsPlanEntry}

\* no file, a file json.load rejects, the object {}, and the documents of up
\* to MaxEntries entries
ArchiveStores ==
    {Missing, Corrupt, ObjectStore}
    \cup {Document(s) : s \in UNION {[1..m -> StoredEntries] : m \in 0..MaxEntries}}

\* run at line 111 for the only candidate of the list, over an archive
\* constructed over any of the stores
InitArchive ==
    \E store \in ArchiveStores : \E d \in {x \in Insights : ~LowQuality(x)} :
        /\ disk = store
        /\ memory = LoadDb(disk)
        /\ origin = [k \in 1..Len(memory) |-> 0]
        /\ profile = <<RankProfile>>
        /\ n = 1
        /\ i = 1
        /\ pc = "retrieve_similar"
        /\ p = <<[arxiv_id |-> 1, title |-> <<"title">>]>>
        /\ insight = <<d>>
        /\ calls = {"fetch_paper_details", "think"}
        /\ outcome = [j \in 1..1 |-> "pending"]
        /\ relevance = 0
        /\ frontend_cards = << >>
        /\ arrivals = << >>
        /\ text = << >>
        /\ hist_match = << >>
        /\ critic_res = << >>
        /\ hist_idx = 0
        /\ judged = "none"
        /\ result = NoResult

NextArchive == RetrieveSimilar \/ DuplicateJudgment \/ DuplicateGate \/ ArchiveSave

SpecArchive == InitArchive /\ [][NextArchive]_vars

\* ------------------------------------------------------------- claims

Candidates == DOMAIN outcome

\* the entries of memory saved for candidate j in this run
SavedFor(j) == {k \in 1..Len(memory) : origin[k] = j}

\* candidate j is in the accepted list or in the returned cards
Listed(j) ==
    \/ \E k \in 1..Len(arrivals) : arrivals[k].id = j
    \/ \E k \in 1..Len(frontend_cards) : frontend_cards[k].card.id = j
    \/ \E k \in 1..Len(result.cards) : result.cards[k].id = j

AfterQualityGate ==
    {"retrieve_similar", "compare_and_evaluate", "save", "calculate_relevance",
     "generate_why_it_matters"}

\* C1: a candidate whose insight has score < 5 ends at the quality gate: no
\* archive lookup, judgment, save or relevance call is made for it, nothing is
\* saved for it and it is in no list of cards, whatever its other fields are.
C1_LowQualityExcluded ==
    /\ (insight # << >> /\ insight[1].score < 5) =>
          /\ outcome[i] = "low_quality"
          /\ calls \cap AfterQualityGate = {}
    /\ \A j \in Candidates :
          outcome[j] = "low_quality" => SavedFor(j) = {} /\ ~Listed(j)

\* a run that returned cards although its first candidate, with sub-scores
\* 4, 3, 3 and a summary of relevance 0.8, had score 4
C1_Witness ==
    /\ result.kind = "briefing"
    /\ result.cards # << >>
    /\ outcome[1] = "low_quality"

\* C2 (as claimed): the archive lookup of a candidate never returns an entry
\* that was saved for an earlier candidate of the same run.
C2_NeverMatchesSameRun == hist_idx # 0 => origin[hist_idx] = 0

\* the entries the archive held when the lookup for the current candidate was made
AtLookup == {k \in 1..Len(memory) : origin[k] < i}

SimilarityTo(k) == CosineSimilarity(Encode(insight[1].one_liner), memory[k].embedding)

\* C2 (amended): the lookup of a candidate is made against the archive as it
\* stands at that moment, the loaded entries and the entries saved for the
\* earlier candidates of this run alike: it returns an entry of the largest
\* similarity among all of them if that is at least 0.3, and None otherwise.
C2_LookupSeesThisRun ==
    "retrieve_similar" \in calls =>
        /\ hist_idx # 0 =>
              /\ hist_idx \in AtLookup
              /\ SimilarityTo(hist_idx) >= 300
              /\ \A k \in AtLookup : SimilarityTo(k) <= SimilarityTo(hist_idx)
        /\ hist_idx = 0 => \A k \in AtLookup : SimilarityTo(k) < 300

\* a candidate matched against, and skipped as duplicate of, an entry saved
\* for an earlier candidate of the same run
C2_Witness ==
    /\ hist_idx # 0
    /\ origin[hist_idx] > 0
    /\ outcome[i] = "duplicate"

\* the current candidate has passed the duplicate gate
PassedDuplicateGate ==
    /\ "retrieve_similar" \in calls
    /\ pc \notin {"compare_and_evaluate", "duplicate_gate"}
    /\ judged # "duplicate"

\* C3: a candidate that passed the duplicate gate is saved exactly once, the
\* save comes before the relevance gate, and a candidate rejected for its
\* relevance stays in the archive, in memory and in the store, to the end.
C3_SavedOnceBeforeRelevance ==
    /\ \A j \in Candidates : Cardinality(SavedFor(j)) <= 1
    /\ (PassedDuplicateGate /\ pc # "save") =>
          /\ "save" \in calls
          /\ Cardinality(SavedFor(i)) = 1
          /\ \A k \in SavedFor(i) : memory[k] = ArchiveEntry(insight[1])
    /\ (pc \in {"calculate_relevance", "accept"} \/ "calculate_relevance" \in calls) =>
          /\ "save" \in calls
          /\ Cardinality(SavedFor(i)) = 1
    /\ \A j \in Candidates :
          outcome[j] \in {"low_relevance", "accepted"} =>
              /\ Cardinality(SavedFor(j)) = 1
              /\ result.kind = "briefing" => disk = Document(memory)

\* a finished run with a candidate rejected for its relevance and still archived
C3_Witness ==
    /\ result.kind = "briefing"
    /\ \E j \in Candidates :
          /\ outcome[j] = "low_relevance"
          /\ SavedFor(j) # {}
          /\ disk = Document(memory)

\* C4: a candidate whose duplicate judgment failed is not skipped as
\* duplicate: it is saved and its relevance is computed and tested as for a
\* candidate without an archive match.
C4_FailedJudgmentPasses ==
    judged = "failed" =>
        /\ hist_idx # 0
        /\ outcome[i] \notin {"duplicate", "fetch_failed", "analysis_failed", "low_quality"}
        /\ pc \in {"save", "calculate_relevance", "accept", "loop", "returned", "raised"}
        /\ pc # "save" => "save" \in calls /\ Cardinality(SavedFor(i)) = 1
        /\ pc \in {"accept", "loop", "returned"} =>
              /\ "calculate_relevance" \in calls
              /\ relevance = CalculateRelevance(insight[1].one_liner, profile[1])
              /\ (outcome[i] = "low_relevance") = (relevance <= 200)
              /\ (outcome[i] = "accepted" \/ pc = "accept") = (relevance > 200)
        /\ pc = "raised" => "save" \in calls

\* a candidate accepted after its duplicate judgment failed
C4_Witness ==
    /\ judged = "failed"
    /\ outcome[i] = "accepted"
    /\ Listed(i)

\* C5: when the judgment succeeded, the candidate is skipped as duplicate
\* exactly if the overlap score is at least 8 and the innovation type is None
\* or Incremental; then nothing is saved or listed for it, and otherwise it
\* goes on to the save.
C5_DuplicateRule ==
    /\ [][(pc = "duplicate_gate" /\ critic_res[1].status = "success") =>
            LET d == critic_res[1].data
                dup == d.topic_overlap_score >= 8
                       /\ d.innovation_type \in {"None", "Incremental"}
            IN /\ dup => /\ pc' = "loop"
                         /\ outcome'[i] = "duplicate"
                         /\ memory' = memory
                         /\ disk' = disk
                         /\ frontend_cards' = frontend_cards
               /\ ~dup => /\ pc' = "save"
                          /\ outcome'[i] # "duplicate"]_vars
    /\ [](\A j \in Candidates :
            outcome[j] = "duplicate" => SavedFor(j) = {} /\ ~Listed(j))

\* a finished run in which one candidate was skipped as duplicate by its
\* judgment and a later one passed by its judgment and was accepted
C5_Witness ==
    /\ result.kind = "briefing"
    /\ \E j \in Candidates : j < i /\ outcome[j] = "duplicate"
    /\ judged = "significant"
    /\ outcome[i] = "accepted"

\* C6 (as claimed): once the profile is there, the run ends only by returning
\* cards, after it has visited every candidate of the list.
C6_FailuresIsolated ==
    (profile # << >> /\ pc \in {"returned", "raised"}) =>
        /\ result.kind = "briefing"
        /\ i = n
        /\ \A j \in 1..n : outcome[j] \notin {"pending", "raised"}

\* C7: when intent extraction fails run returns the error value without
\* cards and has done nothing else: no candidates, no calls, the archive and
\* the store as they were loaded.
C7_IntentFailureIsFatal ==
    (profile = << >> /\ pc # "intent") =>
        /\ pc = "returned"
        /\ result = [kind |-> "error", cards |-> << >>]
        /\ n = 0 /\ i = 0 /\ p = << >>
        /\ calls = {}
        /\ frontend_cards = << >> /\ arrivals = << >>
        /\ \A j \in Candidates : outcome[j] = "pending"
        /\ disk \in InitialStores
        /\ memory = LoadDb(disk)

\* a run over a non-empty archive that ended with the error value
C7_Witness ==
    /\ result.kind = "error"
    /\ memory # << >>

\* the strings fetch_paper_details returns when it retrieved no text
FailureResults == {PageFetchFailedText, HeaderNotFoundText}

\* C8 (as claimed): after fetch_paper_details returned one of its failure
\* results the candidate is skipped as fetch_failed; think is not called for
\* it, nothing is saved for it and it is in no list.
C8_FetchFailureSkipped ==
    text \in FailureResults =>
        /\ pc # "think"
        /\ outcome[i] = "fetch_failed"
        /\ "think" \notin calls
        /\ SavedFor(i) = {} /\ ~Listed(i)

\* C9 (as claimed): for a summary that contains a negative keyword
\* (case-insensitive) calculate_relevance returns 0.0 and the candidate is
\* excluded for its relevance.
C9_NegativeKeywordVeto ==
    ("calculate_relevance" \in calls
        /\ \E k \in 1..Len(profile[1].negative_keywords) :
              Contains(Lower(profile[1].negative_keywords[k]),
                       Lower(insight[1].one_liner))) =>
        /\ relevance = 0
        /\ outcome[i] = "low_relevance"
        /\ ~Listed(i)

\* the position in arrival order of the card at position k of the result
ArrivalOf(k) == CHOOSE j \in 1..Len(arrivals) : arrivals[j].id = result.cards[k].id

\* C10: the returned cards are the first min(3, n) of the n accepted
\* candidates in the order of priority descending, equal priorities in
\* arrival order; no candidate left out ranks before one included.
C10_StableTopThree ==
    result.kind = "briefing" =>
        LET m == IF Len(arrivals) < 3 THEN Len(arrivals) ELSE 3 IN
        /\ Len(result.cards) = m
        /\ \A k \in 1..m : \E j \in 1..Len(arrivals) : arrivals[j].id = result.cards[k].id
        /\ \A k, l \in 1..m :
              k < l =>
                 \/ arrivals[ArrivalOf(k)].priority > arrivals[ArrivalOf(l)].priority
                 \/ /\ arrivals[ArrivalOf(k)].priority = arrivals[ArrivalOf(l)].priority
                    /\ ArrivalOf(k) < ArrivalOf(l)
        /\ \A j \in 1..Len(arrivals) :
              (\A k \in 1..m : ArrivalOf(k) # j) =>
                 \A k \in 1..m :
                    \/ arrivals[j].priority < arrivals[ArrivalOf(k)].priority
                    \/ /\ arrivals[j].priority = arrivals[ArrivalOf(k)].priority
                       /\ j > ArrivalOf(k)

\* priorities 27.0, 31.0, 31.0, 12.0 in arrival order give the cards 2, 3, 1
C10_Witness ==
    /\ result.kind = "briefing"
    /\ [k \in 1..Len(arrivals) |-> arrivals[k].priority] = <<27000, 31000, 31000, 12000>>
    /\ [k \in 1..Len(result.cards) |-> result.cards[k].id] = <<2, 3, 1>>

\* C11: in every returned list of cards the card at position k (from 1) has
\* rank k, the first card has "Top Pick" as its first badge, and the cards
\* of rank 2 and 3 have no "Top Pick" badge at all.
C11_RankAndTopPick ==
    result.kind = "briefing" =>
        \A k \in 1..Len(result.cards) :
            LET c == result.cards[k] IN
            /\ c.rank = k
            /\ k = 1 => (c.badges # << >> /\ c.badges[1] = "Top Pick")
            /\ k > 1 => \A b \in 1..Len(c.badges) : c.badges[b] # "Top Pick"

\* three cards returned, the first with all its own badges after "Top Pick"
C11_Witness ==
    /\ result.kind = "briefing"
    /\ Len(result.cards) = 3
    /\ result.cards[1].badges = <<"Top Pick", "SOTA Beat", "New Arch", "Topic Match">>
    /\ result.cards[2].badges # << >>

\* the card and the priority appended for the current candidate
LastCard == frontend_cards[Len(frontend_cards)]

\* the number of "Topic Match" badges of a badge list
TopicMatchCount(badges) == Cardinality({b \in 1..Len(badges) : badges[b] = "Topic Match"})

\* some word of an interest, lower-cased and longer than 2 characters, is in
\* the lower-cased title as it is, without its trailing s, or with an s appended
SomeInterestWordInTitle ==
    \E k \in 1..Len(profile[1].interests) :
        LET words == Split(Lower(profile[1].interests[k])) IN
        \E m \in 1..Len(words) :
            LET w == words[m]
                tl == Lower(insight[1].title)
            IN /\ Len(w) > 2
               /\ \/ Contains(w, tl)
                  \/ (w[Len(w)] = "s" /\ Contains(SubSeq(w, 1, Len(w) - 1), tl))
                  \/ Contains(Append(w, "s"), tl)

\* C12: for an accepted candidate the priority is score + 20 * relevance,
\* plus exactly 5.0 together with exactly one "Topic Match" badge if some
\* interest word matches the title, and no boost and no such badge if none
\* does, in whatever order the keywords are visited.
C12_TopicBoostOnce ==
    (pc = "loop" /\ i > 0 /\ outcome[i] = "accepted") =>
        LET base == insight[1].score * 1000 + relevance * 20 IN
        IF SomeInterestWordInTitle
        THEN /\ LastCard.priority = base + 5000
             /\ TopicMatchCount(LastCard.card.badges) = 1
        ELSE /\ LastCard.priority = base
             /\ TopicMatchCount(LastCard.card.badges) = 0

\* the interest "reinforcement learning" and the title "Reinforcement Learning
\* for Robotics": both words match, one boost and one badge
C12_Witness ==
    /\ pc = "loop" /\ i > 0 /\ outcome[i] = "accepted"
    /\ profile[1].interests = <<IntReinforcement>>
    /\ insight[1].title = TitleRlRobotics
    /\ LastCard.priority = insight[1].score * 1000 + relevance * 20 + 5000
    /\ TopicMatchCount(LastCard.card.badges) = 1

\* round(sub / max * 100): the nearest integer (no value here lies half way)
RoundPct(sub, max) == (200 * sub + max) \div (2 * max)

\* C13 (as claimed): for every card each percentage metric is the rounded
\* percentage of its raw sub-score: novelty of 4, results and completeness of 3.
C13_RoundedPercentages ==
    \A k \in 1..Len(frontend_cards) :
        LET c == frontend_cards[k].card IN
        /\ c.metrics_novelty_pct = RoundPct(c.raw_novelty, 4)
        /\ c.metrics_results_pct = RoundPct(c.raw_results, 3)
        /\ c.metrics_completeness_pct = RoundPct(c.raw_completeness, 3)

\* C14 (as claimed): when save ends without returning (its file operations
\* stopped anywhere, also after the store was opened for writing), a later
\* load of the store still yields every entry the store held before the save.
C14_CrashKeepsPersisted ==
    [][(pc = "save" /\ pc' = "raised") =>
          LET before == LoadDb(disk)
              after == LoadDb(disk')
          IN /\ Len(after) >= Len(before)
             /\ SubSeq(after, 1, Len(before)) = before]_vars

\* C15: a save that returns has appended exactly the entry of the insight at
\* the end of memory and written the whole of memory to the store; nothing
\* else changes memory, no entry is changed, moved, dropped or left out as a
\* repetition; so after any number of saves the store is what was loaded
\* followed by the saved entries in call order.
C15_SaveAppendsWriteThrough ==
    /\ [][(pc = "save" /\ pc' = "calculate_relevance") =>
             /\ memory' = Append(memory, ArchiveEntry(insight[1]))
             /\ disk' = Document(memory')]_vars
    /\ [][memory' # memory =>
             /\ pc = "save"
             /\ Len(memory') = Len(memory) + 1
             /\ SubSeq(memory', 1, Len(memory)) = memory]_vars
    /\ []((pc # "raised" /\ \E k \in 1..Len(origin) : origin[k] > 0) =>
             disk = Document(memory))

\* the loaded entry followed by two entries of the same summary, saved for
\* the first and the second candidate, all three in the store
C15_Witness ==
    /\ pc = "calculate_relevance"
    /\ origin = <<0, 1, 2>>
    /\ memory[1] = OldEntry
    /\ memory[2] = memory[3]
    /\ disk = Document(memory)

\* C16: retrieve_similar returns None for an archive without entries;
\* otherwise the entry of the largest similarity to the query if that is at
\* least 0.3, exactly 0.3 included, and None if it is below; among several
\* entries of the largest similarity it returns the first in storage order.
C16_RetrieveSimilar ==
    "retrieve_similar" \in calls =>
        /\ AtLookup = {} => hist_idx = 0
        /\ hist_idx = 0 =>
              /\ hist_match = << >>
              /\ \A k \in AtLookup : SimilarityTo(k) < 300
        /\ hist_idx # 0 =>
              /\ hist_idx \in AtLookup
              /\ hist_match = <<memory[hist_idx]>>
              /\ SimilarityTo(hist_idx) >= 300
              /\ \A k \in AtLookup :
                    \/ SimilarityTo(k) < SimilarityTo(hist_idx)
                    \/ (SimilarityTo(k) = SimilarityTo(hist_idx) /\ k >= hist_idx)

\* two different entries, both of similarity exactly 0.3 to the query, which
\* is the largest: the first is returned
C16_Witness ==
    /\ "retrieve_similar" \in calls
    /\ hist_idx = 1
    /\ Cardinality(AtLookup) = 2
    /\ memory[1] # memory[2]
    /\ SimilarityTo(1) = 300
    /\ SimilarityTo(2) = 300
    /\ hist_match = <<memory[1]>>

\* C17 (as claimed): over a store that is missing or corrupt (no entry was
\* loaded) the lookup returns None and the save that follows appends its
\* entry: when it returns, the archive and the store hold exactly that one
\* entry, and when it does not, it was stopped in its file operations.
C17_ColdStoreNotFatal ==
    (i = 1 /\ \A k \in 1..Len(origin) : origin[k] # 0) =>
        /\ "retrieve_similar" \in calls => hist_idx = 0
        /\ "save" \in calls =>
              /\ Len(memory) = 1
              /\ pc # "raised" => disk = Document(memory)

\* C18 (as claimed): an insight that went past the quality gate has a score
\* that is the sum of its sub-scores, novelty in 0..4, results and
\* completeness in 0..3.
C18_ScoreIsSum ==
    (insight # << >> /\ outcome[i] # "low_quality") =>
        LET d == insight[1] IN
        /\ d.score = d.score_novelty + d.score_results + d.score_completeness
        /\ d.score_novelty \in 0..4
        /\ d.score_results \in 0..3
        /\ d.score_completeness \in 0..3

\* C19: a candidate whose lookup is made while the archive has no entry gets
\* no duplicate judgment and is not skipped as duplicate: save is called for
\* it and appends its entry, which the store holds when save has returned.
C19_ColdStart ==
    ("retrieve_similar" \in calls /\ AtLookup = {}) =>
        /\ hist_idx = 0
        /\ "compare_and_evaluate" \notin calls
        /\ judged = "none"
        /\ outcome[i] # "duplicate"
        /\ pc \in {"save", "calculate_relevance", "accept", "loop", "returned", "raised"}
        /\ pc # "save" =>
              /\ "save" \in calls
              /\ \E k \in 1..Len(memory) :
                    /\ SavedFor(i) = {k}
                    /\ memory[k] = ArchiveEntry(insight[1])
              /\ pc # "raised" => disk = Document(memory)

\* no store at the start, the first candidate skipped for its score, the
\* second the first to pass the quality gate: archived without a judgment
C19_Witness ==
    /\ i = 2
    /\ outcome[1] = "low_quality"
    /\ origin = <<2>>
    /\ "compare_and_evaluate" \notin calls
    /\ pc = "calculate_relevance"
    /\ disk = Document(<<ArchiveEntry(insight[1])>>)

\* how a candidate ends that is skipped before the archive write
SkippedBeforeSave == {"fetch_failed", "analysis_failed", "low_quality", "duplicate"}

\* the candidates of a finished run that passed the quality gate and the duplicate gate
PassedBothGates == {j \in 1..n : outcome[j] \in {"low_relevance", "accepted"}}

\* the entries of memory saved in this run
SavedThisRun == {k \in 1..Len(memory) : origin[k] > 0}

\* C20: only save changes the archive and only the acceptance adds to the
\* accepted list, so a candidate skipped before the archive write leaves no
\* entry and no card; over a finished run the archive has grown by exactly
\* the number of candidates that passed both gates, and the accepted
\* candidates are no more than these.
C20_SkippedLeaveNoTrace ==
    /\ [][pc # "save" => (memory' = memory /\ disk' = disk)]_vars
    /\ [][pc # "accept" => arrivals' = arrivals]_vars
    /\ [](\A j \in Candidates :
             outcome[j] \in SkippedBeforeSave => (SavedFor(j) = {} /\ ~Listed(j)))
    /\ [](result.kind = "briefing" =>
             /\ Cardinality(SavedThisRun) = Cardinality(PassedBothGates)
             /\ \E s \in InitialStores :
                   /\ Len(memory) = Len(LoadDb(s)) + Cardinality(PassedBothGates)
                   /\ SubSeq(memory, 1, Len(LoadDb(s))) = LoadDb(s)
             /\ Len(arrivals) <= Cardinality(PassedBothGates)
             /\ Len(frontend_cards) = Len(arrivals))

\* a finished run of three candidates: one skipped as duplicate, one
\* archived and rejected for its relevance, one archived and accepted
C20_Witness ==
    /\ result.kind = "briefing"
    /\ n = 3
    /\ \E j \in 1..n : outcome[j] = "duplicate"
    /\ \E j \in 1..n : outcome[j] = "low_relevance"
    /\ \E j \in 1..n : outcome[j] = "accepted"
    /\ Cardinality(SavedThisRun) = 2
    /\ Len(arrivals) = 1

====
